---------------------------- MODULE Spec2Model ----------------------------
(***************************************************************************)
(* Model of src/copilot_langchain/langchain-chat.ipynb: the notebook's     *)
(* cells run top to bottom (environment -> credentials -> retriever ->     *)
(* prompt template -> chat model -> memory -> chain), then the question    *)
(* cell is run any number of times on the same kernel.                     *)
(*                                                                         *)
(* The call qna_chain({"question": inquiry}) is one blocking call; it is   *)
(* split at the points where it waits for a remote service (the search     *)
(* retriever, the chat model), rpc being the position inside the call.     *)
(*                                                                         *)
(* The notebook's own code is the wiring; what the wired objects do is the *)
(* documented behaviour of the library classes it names:                   *)
(*   ConversationalRetrievalChain  load memory; if the history is not      *)
(*       empty run the question generator (condense_question_prompt);      *)
(*       retrieve; combine the passages and call the model; save memory    *)
(*   ConversationBufferMemory      append the user and the model message   *)
(*   PromptTemplate                fill the named fields of the template   *)
(* An exception raised inside the call leaves it at once (nothing in the   *)
(* notebook catches it), so memory is saved only when the call returns.    *)
(***************************************************************************)
EXTENDS Integers, Sequences, FiniteSets, TLC

\* ------------------------------------------------------------------ bounds
MaxRequests == 3
MaxTextLen == 2
MaxTemplateLen == 4

\* ------------------------------------------------------- program constants
\* AzureCognitiveSearchRetriever(content_key="content", top_k=10, ...)
top_k == 10

\* ------------------------------------------------------------- input sets
Questions == {"q1", "q2"}
Answers == {"a1", "a2"}
Passages == {"d1", "d2"}
Chars == {"a", "b"}

VARIABLES
    env,        \* names present in os.environ
    bound,      \* names bound in the kernel (module attributes included)
    pc,         \* the cell that runs next, or "halted"
    error,      \* the exception the last cell run raised, "none" if none
    memory,     \* memory.chat_memory.messages
    rpc,        \* position inside qna_chain(...), "idle" outside of it
    inputs,     \* the chain call's inputs after prep_inputs
    before,     \* memory as it was when the current/last call started
    new_question, \* the question handed to the retriever
    docs,       \* what the retriever returned
    prompt,     \* what the chat model is called with
    answer,     \* what the chat model returned
    response,   \* response['answer'] of the last call, "None" if it raised
    events,     \* the steps the current/last call went through, in order
    asked,      \* number of times the question cell was run
    log,        \* (question, answer) of every call that returned, in order
    ctemplate,  \* PromptTemplate.format: the template formatted
    ckwargs,    \* PromptTemplate.format: the keyword arguments
    cout,       \* PromptTemplate.format: the result
    cpc         \* PromptTemplate.format: "ready", "done" ("off": not in use)

cellVars == <<env, bound, pc>>
callVars == <<rpc, inputs, before, new_question, docs, prompt, answer,
              response, events, asked, log>>
composeVars == <<ctemplate, ckwargs, cout, cpc>>
vars == <<env, bound, pc, error, memory, rpc, inputs, before, new_question,
          docs, prompt, answer, response, events, asked, log,
          ctemplate, ckwargs, cout, cpc>>

\* ------------------------------------------------------------ environment
\* the nine values the notebook reads from the environment
Required == {"OPENAI_API_TYPE", "OPENAI_API_KEY", "OPENAI_API_VERSION",
             "OPENAI_API_BASE", "AZURE_AI_SEARCH_ENDPOINT",
             "AZURE_AI_SEARCH_KEY", "AZURE_AI_SEARCH_INDEX_NAME",
             "AZURE_OPENAI_CHAT_DEPLOYMENT", "AZURE_OPENAI_CHAT_MODEL"}

\* the statements of setup_credentials, in order: <<name read, name written>>
\* (os.environ[name] raises KeyError when name is absent)
setup_statements ==
    << <<"OPENAI_API_TYPE", "openai.api_type">>,
       <<"OPENAI_API_KEY", "openai.api_key">>,
       <<"OPENAI_API_VERSION", "openai.api_version">>,
       <<"OPENAI_API_BASE", "openai.api_base">>,
       <<"AZURE_AI_SEARCH_ENDPOINT", "AZURE_COGNITIVE_SEARCH_TARGET">>,
       <<"AZURE_AI_SEARCH_KEY", "AZURE_COGNITIVE_SEARCH_API_KEY">>,
       <<"AZURE_AI_SEARCH_KEY", "AZURE_COGNITIVE_SEARCH_SERVICE_NAME">>,
       <<"AZURE_AI_SEARCH_INDEX_NAME", "AZURE_COGNITIVE_SEARCH_INDEX_NAME">> >>

\* the environment names setup_credentials writes (the rest are attributes)
IsEnvTarget(name) == name \in {"AZURE_COGNITIVE_SEARCH_TARGET",
                               "AZURE_COGNITIVE_SEARCH_API_KEY",
                               "AZURE_COGNITIVE_SEARCH_SERVICE_NAME",
                               "AZURE_COGNITIVE_SEARCH_INDEX_NAME"}

RECURSIVE run_statements(_, _, _, _)
\* runs statements i.. of stmts; stops at the first read of an absent name
run_statements(stmts, i, e, b) ==
    IF i > Len(stmts) THEN [env |-> e, bound |-> b, ok |-> TRUE]
    ELSE IF stmts[i][1] \notin e THEN [env |-> e, bound |-> b, ok |-> FALSE]
    ELSE IF IsEnvTarget(stmts[i][2])
         THEN run_statements(stmts, i + 1, e \cup {stmts[i][2]}, b)
         ELSE run_statements(stmts, i + 1, e, b \cup {stmts[i][2]})

\* a variant that reads with a default instead of raising
setup_credentials_getenv(e, b) ==
    [env |-> e \cup {s[2] : s \in {setup_statements[i] : i \in 1..Len(setup_statements)}},
     bound |-> b, ok |-> TRUE]

setup_credentials(e, b) == run_statements(setup_statements, 1, e, b)

\* ------------------------------------------------------------------ Init
NoCall ==
    /\ rpc = "idle"
    /\ inputs = [question |-> "None", chat_history |-> <<>>]
    /\ before = <<>>
    /\ new_question = "None"
    /\ docs = <<>>
    /\ prompt = [context |-> <<>>, question |-> "None"]
    /\ answer = "None"
    /\ response = "None"
    /\ events = <<>>
    /\ asked = 0
    /\ log = <<>>

\* --------------------------------------------------------- prompt template
\* a template is a sequence of tokens: <<"lit", text>> is literal text and
\* <<"slot", name>> is a replacement field {name}
Lit(text) == <<"lit", text>>
Slot(name) == <<"slot", name>>

\* the template string of the notebook
template ==
    << Lit("System: ... ---"), Slot("chat_history"), Lit("------"),
       Slot("context"), Lit("------ Question: "), Slot("question"),
       Lit("Answer:") >>

\* PromptTemplate(template=template, input_variables=[...])
input_variables == <<"context", "chat_history", "question">>

SlotNames == {"chat_history", "context", "question"}

RECURSIVE format_positional(_, _, _, _)
\* a formatter that fills the k-th field with the k-th declared variable
format_positional(T, kwargs, i, k) ==
    IF i > Len(T) THEN <<>>
    ELSE IF T[i][1] = "slot"
         THEN kwargs[input_variables[((k - 1) % Len(input_variables)) + 1]]
              \o format_positional(T, kwargs, i + 1, k + 1)
         ELSE <<T[i][2]>> \o format_positional(T, kwargs, i + 1, k)

format_by_position(T, kwargs) == format_positional(T, kwargs, 1, 1)

RECURSIVE format_from(_, _, _)
format_from(T, kwargs, i) ==
    IF i > Len(T) THEN <<>>
    ELSE (IF T[i][1] = "slot" THEN kwargs[T[i][2]] ELSE <<T[i][2]>>)
         \o format_from(T, kwargs, i + 1)

\* prompt_template.format(**kwargs): every field {name} is replaced by
\* kwargs[name], literal text is copied; the result is a sequence of pieces
\* of text (a literal is one piece, a value is its characters)
format(T, kwargs) == format_from(T, kwargs, 1)

\* Chain._validate_inputs of the chain that owns the prompt: the declared
\* input variables the caller did not supply
missing_keys(variables, supplied) ==
    {variables[i] : i \in 1..Len(variables)} \ supplied

\* ------------------------------------------------------ conversation memory
HumanMessage(content) == <<"human", content>>
AIMessage(content) == <<"ai", content>>

\* a variant that records the model's message before the user's
save_context_swapped(messages, q, a) ==
    messages \o <<AIMessage(a), HumanMessage(q)>>

\* memory.save_context(inputs, outputs): add_user_message, add_ai_message
save_context(messages, q, a) ==
    messages \o <<HumanMessage(q), AIMessage(a)>>

RECURSIVE get_chat_history(_)
\* the chain's rendering of the stored messages for the history field:
\* one line per message, a role prefix and the content
get_chat_history(messages) ==
    IF messages = <<>> THEN <<>>
    ELSE <<"\n", IF messages[1][1] = "human" THEN "Human: " ELSE "Assistant: ",
           messages[1][2]>> \o get_chat_history(Tail(messages))

\* ------------------------------------------------------------- exceptions
\* os.environ[name] with name absent
ConfigurationError == "KeyError"
\* question_generator.run(...) with a declared input variable not supplied
TemplateError == "ValueError: Missing some input keys"
\* whatever the search client raises out of the retriever
RetrievalError == "RetrievalError"
\* whatever the Azure OpenAI client raises out of the chat model
ModelError == "ModelError"

\* ------------------------------------------------------------------- Init
NoCompose ==
    /\ ctemplate = template
    /\ ckwargs = [n \in SlotNames |-> <<>>]
    /\ cout = <<>>
    /\ cpc = "off"

Init ==
    /\ env \in SUBSET Required
    /\ bound = {}
    /\ pc = "setup_credentials"
    /\ error = "none"
    /\ memory = <<>>
    /\ NoCall
    /\ NoCompose

\* ------------------------------------------------------------ setup cells
\* cell: setup_credentials()
RunSetupCredentials ==
    /\ pc = "setup_credentials"
    /\ LET r == setup_credentials(env, bound) IN
        /\ env' = r.env
        /\ bound' = r.bound
        /\ IF r.ok
           THEN pc' = "get_search_resource_name" /\ error' = "none"
           ELSE pc' = "halted" /\ error' = ConfigurationError
    /\ UNCHANGED <<memory, callVars, composeVars>>

\* cell: endpoint = get_search_resource_name(os.getenv(...)); resource_name
\* (os.getenv does not raise)
RunGetSearchResourceName ==
    /\ pc = "get_search_resource_name"
    /\ bound' = bound \cup {"endpoint", "resource_name"}
    /\ pc' = "retriever"
    /\ UNCHANGED <<env, error, memory, callVars, composeVars>>

\* cell: retriever = AzureCognitiveSearchRetriever(...)
RunRetriever ==
    /\ pc = "retriever"
    /\ "resource_name" \in bound
    /\ bound' = bound \cup {"retriever"}
    /\ pc' = "prompt_template"
    /\ UNCHANGED <<env, error, memory, callVars, composeVars>>

\* cell: template = ...; prompt_template = PromptTemplate(...)
RunPromptTemplate ==
    /\ pc = "prompt_template"
    /\ bound' = bound \cup {"template", "prompt_template"}
    /\ pc' = "llm"
    /\ UNCHANGED <<env, error, memory, callVars, composeVars>>

\* cell: llm = AzureChatOpenAI(deployment_name=os.environ[...],
\*                             model_name=os.environ[...], temperature=0.7)
RunLlm ==
    /\ pc = "llm"
    /\ IF {"AZURE_OPENAI_CHAT_DEPLOYMENT", "AZURE_OPENAI_CHAT_MODEL"} \subseteq env
       THEN /\ bound' = bound \cup {"llm"}
            /\ pc' = "memory"
            /\ error' = "none"
       ELSE /\ bound' = bound
            /\ pc' = "halted"
            /\ error' = ConfigurationError
    /\ UNCHANGED <<env, memory, callVars, composeVars>>

\* cell: memory = ConversationBufferMemory(memory_key="chat_history", ...)
RunMemory ==
    /\ pc = "memory"
    /\ bound' = bound \cup {"memory"}
    /\ memory' = <<>>
    /\ pc' = "qna_chain"
    /\ UNCHANGED <<env, error, callVars, composeVars>>

\* cell: qna_chain = ConversationalRetrievalChain.from_llm(llm, retriever,
\*       condense_question_prompt=prompt_template, memory=memory)
RunQnaChain ==
    /\ pc = "qna_chain"
    /\ {"llm", "retriever", "prompt_template", "memory"} \subseteq bound
    /\ bound' = bound \cup {"qna_chain"}
    /\ pc' = "inquiry"
    /\ UNCHANGED <<env, error, memory, callVars, composeVars>>

\* ------------------------------------------------- qna_chain({"question": q})
\* the (ordered, at most top_k) passage lists the retriever may return
DocLists == {d \in {<<>>} \cup {<<x>> : x \in Passages}
                   \cup {<<x, y>> : x \in Passages, y \in Passages} :
             Len(d) <= top_k}

\* cell: inquiry = q; response = qna_chain({"question": inquiry})
\* Chain.__call__ starts with prep_inputs, which loads the memory variables
RunInquiry(q) ==
    /\ pc = "inquiry"
    /\ "qna_chain" \in bound
    /\ rpc = "idle"
    /\ asked < MaxRequests
    /\ asked' = asked + 1
    /\ inputs' = [question |-> q, chat_history |-> memory]
    /\ before' = memory
    /\ error' = "none"
    /\ response' = "None"
    /\ events' = <<"render">>
    /\ rpc' = "condense"
    /\ UNCHANGED <<cellVars, memory, new_question, docs, prompt, answer, log,
                   composeVars>>

\* _call, first part: with an empty history the question is used as it is;
\* otherwise the question generator (an LLM chain over prompt_template, the
\* condense_question_prompt) is run with question and chat_history only
Condense ==
    /\ rpc = "condense"
    /\ LET chat_history_str == get_chat_history(inputs.chat_history) IN
       IF chat_history_str = <<>>
       THEN /\ new_question' = inputs.question
            /\ rpc' = "get_docs"
            /\ UNCHANGED <<error, events>>
       ELSE IF missing_keys(input_variables, {"question", "chat_history"}) # {}
       THEN /\ error' = TemplateError
            /\ rpc' = "idle"
            /\ events' = Append(events, "compose_failed")
            /\ UNCHANGED new_question
       ELSE \/ /\ new_question' \in Questions
               /\ rpc' = "get_docs"
               /\ events' = events \o <<"compose", "complete">>
               /\ UNCHANGED error
            \/ /\ error' = ModelError
               /\ rpc' = "idle"
               /\ events' = events \o <<"compose", "complete_failed">>
               /\ UNCHANGED new_question
    /\ UNCHANGED <<cellVars, memory, inputs, before, docs, prompt, answer,
                   response, asked, log, composeVars>>

\* _get_docs: the retriever returns its passages
GetDocsReturns ==
    /\ rpc = "get_docs"
    /\ docs' \in DocLists
    /\ events' = Append(events, "retrieve")
    /\ rpc' = "combine"
    /\ UNCHANGED <<cellVars, error, memory, inputs, before, new_question,
                   prompt, answer, response, asked, log, composeVars>>

\* a variant that answers from an empty context when the search fails
GetDocsFails_empty_context ==
    /\ rpc = "get_docs"
    /\ docs' = <<>>
    /\ events' = Append(events, "retrieve_failed")
    /\ rpc' = "combine"
    /\ UNCHANGED <<cellVars, error, memory, inputs, before, new_question,
                   prompt, answer, response, asked, log, composeVars>>

\* _get_docs: the retriever raises; the exception leaves the chain call
GetDocsFails ==
    /\ rpc = "get_docs"
    /\ error' = RetrievalError
    /\ events' = Append(events, "retrieve_failed")
    /\ rpc' = "idle"
    /\ UNCHANGED <<cellVars, memory, inputs, before, new_question, docs,
                   prompt, answer, response, asked, log, composeVars>>

\* combine_docs_chain.run: the passages are stuffed into the answering
\* prompt together with the question, and the chat model is called
Combine ==
    /\ rpc = "combine"
    /\ prompt' = [context |-> docs, question |-> new_question]
    /\ events' = Append(events, "compose")
    /\ rpc' = "complete"
    /\ UNCHANGED <<cellVars, error, memory, inputs, before, new_question,
                   docs, answer, response, asked, log, composeVars>>

\* the chat model returns an answer
CompleteReturns ==
    /\ rpc = "complete"
    /\ answer' \in Answers
    /\ events' = Append(events, "complete")
    /\ rpc' = "save"
    /\ UNCHANGED <<cellVars, error, memory, inputs, before, new_question,
                   docs, prompt, response, asked, log, composeVars>>

\* a variant that records the exchange although the model call failed
CompleteFails_saves ==
    /\ rpc = "complete"
    /\ error' = ModelError
    /\ memory' = save_context(memory, inputs.question, "None")
    /\ events' = Append(events, "complete_failed")
    /\ rpc' = "idle"
    /\ UNCHANGED <<cellVars, inputs, before, new_question, docs, prompt,
                   answer, response, asked, log, composeVars>>

\* the chat model raises; the exception leaves the chain call
CompleteFails ==
    /\ rpc = "complete"
    /\ error' = ModelError
    /\ events' = Append(events, "complete_failed")
    /\ rpc' = "idle"
    /\ UNCHANGED <<cellVars, memory, inputs, before, new_question, docs,
                   prompt, answer, response, asked, log, composeVars>>

\* a variant that raises after the exchange was recorded
SaveContext_then_raises ==
    /\ rpc = "save"
    /\ memory' = save_context(memory, inputs.question, answer)
    /\ error' = ModelError
    /\ events' = Append(events, "append")
    /\ rpc' = "idle"
    /\ UNCHANGED <<cellVars, inputs, before, new_question, docs, prompt,
                   answer, response, asked, log, composeVars>>

\* prep_outputs: memory.save_context(inputs, outputs); the call returns
SaveContext ==
    /\ rpc = "save"
    /\ memory' = save_context(memory, inputs.question, answer)
    /\ response' = answer
    /\ log' = Append(log, <<inputs.question, answer>>)
    /\ events' = Append(events, "append")
    /\ rpc' = "idle"
    /\ UNCHANGED <<cellVars, error, inputs, before, new_question, docs,
                   prompt, answer, asked, composeVars>>

\* --------------------------------------------------------- specifications
Next ==
    \/ RunSetupCredentials
    \/ RunGetSearchResourceName
    \/ RunRetriever
    \/ RunPromptTemplate
    \/ RunLlm
    \/ RunMemory
    \/ RunQnaChain
    \/ \E q \in Questions : RunInquiry(q)
    \/ Condense
    \/ GetDocsReturns
    \/ GetDocsFails
    \/ Combine
    \/ CompleteReturns
    \/ CompleteFails
    \/ SaveContext

Spec == Init /\ [][Next]_vars

\* the chain call is one blocking call: each of its steps is taken, and a
\* remote call comes back, with a result or with an exception
FairSpec ==
    /\ Spec
    /\ WF_vars(Condense)
    /\ WF_vars(GetDocsReturns \/ GetDocsFails)
    /\ WF_vars(Combine)
    /\ WF_vars(CompleteReturns \/ CompleteFails)
    /\ WF_vars(SaveContext)

\* ------------------------------------------ PromptTemplate.format on its own
Tokens == {Lit("x")} \cup {Slot(n) : n \in SlotNames}

\* the templates that hold the three fields: the notebook's and every token
\* sequence up to MaxTemplateLen that names each field at least once
Templates ==
    {template} \cup
    UNION {{T \in [1..n -> Tokens] :
              \A name \in SlotNames : \E i \in 1..n : T[i] = Slot(name)} :
           n \in 3..MaxTemplateLen}

Texts == UNION {[1..n -> Chars] : n \in 0..MaxTextLen}

ComposeInit ==
    /\ env = Required
    /\ bound = {}
    /\ pc = "setup_credentials"
    /\ error = "none"
    /\ memory = <<>>
    /\ NoCall
    /\ ctemplate \in Templates
    /\ ckwargs \in {kw \in [SlotNames -> Texts] : Len(kw["question"]) = 1}
    /\ cout = <<>>
    /\ cpc = "ready"

\* prompt_template.format(chat_history=h, context=c, question=q)
Format ==
    /\ cpc = "ready"
    /\ cout' = format(ctemplate, ckwargs)
    /\ cpc' = "done"
    /\ UNCHANGED <<cellVars, error, memory, callVars, ctemplate, ckwargs>>

ComposeNext == Format

ComposeSpec == ComposeInit /\ [][ComposeNext]_vars

\* ================================================================= claims
Range(f) == {f[i] : i \in DOMAIN f}
Last(f) == f[Len(f)]
IsPrefix(a, b) == Len(a) <= Len(b) /\ SubSeq(b, 1, Len(a)) = a
Missing == Required \ env
OrchestratorErrors == {RetrievalError, TemplateError, ModelError}

\* C1: when the chat model call fails the request ends with ModelError, no
\* answer is returned, and the memory is what it was before the request.
C1_ModelFailureKeepsMemory ==
    (events # <<>> /\ Last(events) = "complete_failed") =>
        /\ rpc = "idle"
        /\ error = ModelError
        /\ response = "None"
        /\ memory = before

\* a model call failed on a request that was not the first of the session
C1_Witness ==
    /\ events # <<>> /\ Last(events) = "complete_failed"
    /\ asked > 1
    /\ rpc = "idle"

\* C2: when the retriever call fails the request ends with RetrievalError
\* right there: nothing is composed, the chat model is not called (with an
\* empty context or otherwise), and the memory is what it was before.
C2_RetrievalFailureAborts ==
    ("retrieve_failed" \in Range(events)) =>
        /\ Last(events) = "retrieve_failed"
        /\ rpc = "idle"
        /\ error = RetrievalError
        /\ response = "None"
        /\ memory = before

\* a retrieval failed on a request that was not the first of the session
C2_Witness ==
    /\ "retrieve_failed" \in Range(events)
    /\ asked > 1
    /\ rpc = "idle"

\* the stored messages come in (human, ai) pairs
WellPaired(messages) ==
    /\ Len(messages) % 2 = 0
    /\ \A i \in 1..Len(messages) :
          messages[i][1] = (IF i % 2 = 1 THEN "human" ELSE "ai")

\* the (question, answer) turns the stored messages spell
Turns(messages) ==
    [i \in 1..(Len(messages) \div 2) |->
        <<messages[2 * i - 1][2], messages[2 * i][2]>>]

\* C3: the memory is exactly the chronological log of the exchanges that
\* succeeded (the i-th turn is the i-th answered question with its answer),
\* and no step removes or reorders a stored message.
C3_MemoryIsLogOfSuccesses ==
    /\ [](WellPaired(memory) /\ Turns(memory) = log)
    /\ [][IsPrefix(memory, memory')]_vars

\* one question was answered, and two more requests failed around it
C3_Witness ==
    /\ Len(log) = 1
    /\ Len(memory) = 2
    /\ asked >= 3
    /\ rpc = "idle"

\* the history handed to the request renders every stored turn verbatim
HistoryRendersTurns ==
    \A i \in 1..Len(before) :
        \E j \in 1..Len(get_chat_history(inputs.chat_history)) :
            get_chat_history(inputs.chat_history)[j] = before[i][2]

\* C4 (as claimed): a request made after a successful one sees the first
\* turn's question and answer in its rendered history, and, unless a remote
\* call fails, completes with an answer.
C4_SecondRequestCompletes ==
    (rpc = "idle" /\ asked > 0 /\ before # <<>>
        /\ error \notin {RetrievalError, ModelError}) =>
        /\ HistoryRendersTurns
        /\ error = "none"
        /\ response \in Answers

\* C5 (as claimed): within a request the steps come in the order retriever,
\* prompt composer, chat model, memory append.
C5_FixedOrder ==
    \A i \in 1..Len(events) :
        /\ events[i] \in {"compose", "compose_failed"} =>
              \E j \in 1..(i - 1) : events[j] = "retrieve"
        /\ events[i] \in {"complete", "complete_failed"} =>
              \E j \in 1..(i - 1) : events[j] = "compose"
        /\ events[i] = "append" =>
              \E j \in 1..(i - 1) : events[j] = "complete"

\* the width of token i of T in the output, and where it starts
Width(T, kwargs, i) ==
    IF T[i][1] = "slot" THEN Len(kwargs[T[i][2]]) ELSE 1

RECURSIVE Offset(_, _, _)
Offset(T, kwargs, i) ==
    IF i = 1 THEN 0 ELSE Offset(T, kwargs, i - 1) + Width(T, kwargs, i - 1)

\* C6: for a template with the three fields the output is the template with
\* every field replaced by its value: each value stands whole at the place
\* of its field, each literal at its own place, and nothing else is there.
C6_ComposeSubstitutes ==
    (cpc = "done") =>
        /\ Len(cout) = Offset(ctemplate, ckwargs, Len(ctemplate) + 1)
        /\ \A i \in 1..Len(ctemplate) :
              LET o == Offset(ctemplate, ckwargs, i) IN
              IF ctemplate[i][1] = "slot"
              THEN SubSeq(cout, o + 1, o + Width(ctemplate, ckwargs, i))
                      = ckwargs[ctemplate[i][2]]
              ELSE cout[o + 1] = ctemplate[i][2]

\* the notebook's template formatted with three different non-empty values
C6_Witness ==
    /\ cpc = "done"
    /\ ctemplate = template
    /\ Len(ckwargs["chat_history"]) >= 2
    /\ Len(ckwargs["context"]) >= 1
    /\ ckwargs["chat_history"] # ckwargs["context"]
    /\ ckwargs["context"] # ckwargs["question"]

\* the names setup_credentials reads
SetupReads == {setup_statements[i][1] : i \in 1..Len(setup_statements)}

\* C7 (as claimed): with a required value missing, setup fails before the
\* retriever, the model client or the chain is built, and no question is
\* processed.
C7_FailsBeforeRetriever ==
    (Missing # {}) =>
        /\ "retriever" \notin bound
        /\ "llm" \notin bound
        /\ "qna_chain" \notin bound
        /\ asked = 0

\* C7 (amended): with a required value missing, the session never gets past
\* the cell that builds the model client: that cell or an earlier one ends
\* the session with a KeyError, the model client and the chain are never
\* built and no question is processed; the retriever is not built either
\* when the missing value is one that setup_credentials reads.
C7_FailsBeforeModelClient ==
    (Missing # {}) =>
        /\ pc \in {"setup_credentials", "get_search_resource_name",
                   "retriever", "prompt_template", "llm", "halted"}
        /\ (pc = "halted" => error = ConfigurationError)
        /\ "llm" \notin bound
        /\ "qna_chain" \notin bound
        /\ asked = 0 /\ rpc = "idle"
        /\ (Missing \cap SetupReads # {} => "retriever" \notin bound)

\* a chat model setting is missing: the session ended with the retriever built
C7_Witness ==
    /\ Missing # {}
    /\ pc = "halted"
    /\ error = ConfigurationError
    /\ "retriever" \in bound

\* nothing of a request is committed while it runs, and when it is over it
\* either returned an answer, recorded with its question, or raised one of
\* the three errors and recorded nothing
NoPartialSuccess ==
    /\ rpc # "idle" => (memory = before /\ response = "None")
    /\ (rpc = "idle" /\ asked > 0) =>
          \/ /\ error = "none"
             /\ response \in Answers
             /\ memory = before \o <<<<"human", inputs.question>>,
                                     <<"ai", response>>>>
          \/ /\ error \in OrchestratorErrors
             /\ response = "None"
             /\ memory = before

\* C9: a question takes the orchestrator from Idle to Processing, every
\* Processing cycle comes back to Idle, and a cycle ends either in an answer
\* or in one of the three errors, never in between.
C9_TwoStateCycle ==
    /\ []NoPartialSuccess
    /\ [][asked' # asked => (rpc = "idle" /\ rpc' # "idle")]_vars
    /\ (rpc # "idle") ~> (rpc = "idle")

\* a cycle that ended in the template error after one that ended in an answer
C9_Witness ==
    /\ rpc = "idle"
    /\ asked >= 2
    /\ error = TemplateError
    /\ Len(log) = 1

====
